---- MODULE Spec2Model ----
(***************************************************************************)
(* A model of the agent's request processor (lib/src/request_processor.cc) *)
(* and of the agent endpoint's connection callbacks                        *)
(* (src/agent/agent_endpoint.cpp).                                         *)
(*                                                                         *)
(* The request thread runs processBlockingRequest and                      *)
(* processNonBlockingRequest one request at a time; every spawned          *)
(* nonBlockingActionTask is a thread of its own, so its steps interleave   *)
(* with the request thread and with the other tasks.                       *)
(***************************************************************************)
EXTENDS Integers, Sequences, FiniteSets, TLC

\* ------------------------------------------------------------------ bounds

\* Number of requests the request thread handles in one run.
MaxReq == 2
\* Number of distinct values UUID::getUUID() can return in one run.
MaxId == 2
\* Largest value of timer.elapsedSeconds() in one run.
MaxDur == 1

\* Number of inbound messages handle_message receives in one run.
MaxMsg == 2
\* Number of pong callbacks and of pong-timeout callbacks in one run.
MaxPong == 2
MaxTimeout == 2

\* Number of times the broker side drops the connection in one run.
MaxDrop == 1
\* Number of pings the heartbeat thread is seen to send in one run (further
\* pings are sent but not counted).
MaxPing == 2
\* Number of inbound messages, of pong callbacks and of pong-timeout
\* callbacks the connection delivers in one run.
MaxConnMsg == 1
MaxConnPong == 1
MaxConnTimeout == 1

Reqs == 1..MaxReq
JobIds == 1..MaxId
Pongs == 1..MaxPong
Timeouts == 1..MaxTimeout

\* ------------------------------------------------------------------- state

VARIABLES
    \* request thread
    reqPc,       \* position of the request thread
    cur,         \* the request being processed (0: none)
    nreq,        \* requests accepted so far
    kind,        \* request -> "none" | "blocking" | "non_blocking"
    notify,      \* request -> data.notify_outcome
    job,         \* request -> job_id drawn for it (0: none)
    errMsg,      \* request -> err_msg of processNonBlockingRequest
    result,      \* request -> how the processor call ended
    \* spool
    dirs,        \* existing results directories (by job id)
    files,       \* job id -> the three files of its results directory
    \* tasks
    taskPc,      \* request -> position of its nonBlockingActionTask
    outcome,     \* request -> what executeAction produced in the task
    done,        \* request -> the shared atomic<bool> of its task
    tracker,     \* tasks registered with thread_container_
    events,      \* request -> observable events of its task, in order
    \* channel and process
    log,         \* every send attempted on the connector, in order
    terminated   \* std::terminate was called: the process is gone

procVars == <<reqPc, cur, nreq, kind, notify, job, errMsg, result, dirs, files,
              taskPc, outcome, done, tracker, events, log, terminated>>

VARIABLES
    \* AgentEndpoint::handle_message
    hmMsgs,      \* the inbound messages handled so far, in order
    hmCalls,     \* message index -> what validate_and_call_action did
    hmSent       \* the responses handle_message attempted, in order

msgVars == <<hmMsgs, hmCalls, hmSent>>

VARIABLES
    \* the pong callbacks of AgentEndpoint::setConnectionCallbacks
    consecutive_pong_timeouts,  \* the shared counter
    pong_mutex,                 \* its holder, or Free
    pongPc,                     \* pong callback -> position
    timeoutPc,                  \* pong-timeout callback -> position
    incsSince                   \* pong callback -> increments of the counter
                                \* since the callback read it

pongVars == <<consecutive_pong_timeouts, pong_mutex, pongPc, timeoutPc,
              incsSince>>

VARIABLES
    \* AgentEndpoint::connect_and_run, the heartbeat task, the connection
    carPc,           \* position of the thread that runs connect_and_run
    connection_ptr,  \* TRUE once createConnection has set connection_ptr_
    connState,       \* connection_ptr_->getState(): "open" or "closed"
    callbacks,       \* the four callbacks registered on the connection
    hbPc,            \* position of the heartbeat thread
    must_stop,       \* HeartbeatTask::must_stop_
    hbJoined,        \* the heartbeat thread was joined
    opens,           \* successful opens so far
    pendingOpen,     \* on-open events the connection has yet to deliver
    logins,          \* login messages send_login attempted
    pings,           \* pings sent, counted up to MaxPing
    drops,           \* connection drops so far
    fatal,           \* the exception that left connect_and_run ("": none)
    loginError,      \* send_login threw a fatal_error inside the callback
    lastOpen,        \* how the latest open and waitForOpen ended
    shutdown,        \* the agent was asked to shut down
    atReset          \* what the callbacks had done when they were reset

connVars == <<carPc, connection_ptr, connState, callbacks, hbPc, must_stop,
              hbJoined, opens, pendingOpen, logins, pings, drops, fatal,
              loginError, lastOpen, shutdown, atReset>>

vars == <<procVars, msgVars, pongVars, connVars>>

\* What the request processor leaves alone.
notProc == <<msgVars, pongVars, connVars>>
\* What handle_message leaves alone.
notMsg == <<procVars, pongVars, connVars>>
\* What the pong callbacks leave alone.
notPong == <<procVars, msgVars, connVars>>
\* What connect_and_run, the heartbeat and the destructor leave alone.
notConn == <<procVars, msgVars, pongVars>>

\* ------------------------------------------------------------ file contents

Absent == [c |-> "absent", r |-> 0]
Empty == [c |-> "empty", r |-> 0]
NoStatus == [status |-> "absent", duration |-> 0, req |-> 0]
NoFiles == [status |-> NoStatus, stdout |-> Absent, stderr |-> Absent]

\* action_status: module, action and input are those of request r.
RunningStatus(r) == [status |-> "running", duration |-> 0, req |-> r]
CompletedStatus(r, d) == [status |-> "completed", duration |-> d, req |-> r]

\* FileUtils::writeToFile: the file's previous content is replaced.
writeToFile(fs, j, name, content) ==
    [fs EXCEPT ![j] = [@ EXCEPT ![name] = content]]

\* One send attempt on the connector.
Msg(type, r, success, debug, ok) ==
    [type |-> type, req |-> r, job |-> job[r], success |-> success,
     error |-> IF type = "provisional_response" THEN errMsg[r] ELSE "",
     debug |-> debug, ok |-> ok]

Outcomes == {"internal", "external", "external_stderr", "request_error"}

\* -------------------------------------------------------------------- Init

InitProc ==
    /\ reqPc = "idle"
    /\ cur = 0
    /\ nreq = 0
    /\ kind = [r \in Reqs |-> "none"]
    /\ notify = [r \in Reqs |-> FALSE]
    /\ job = [r \in Reqs |-> 0]
    /\ errMsg = [r \in Reqs |-> ""]
    /\ result = [r \in Reqs |-> "pending"]
    /\ dirs = {}
    /\ files = [j \in JobIds |-> NoFiles]
    /\ taskPc = [r \in Reqs |-> "none"]
    /\ outcome = [r \in Reqs |-> "none"]
    /\ done = [r \in Reqs |-> FALSE]
    /\ tracker = {}
    /\ events = [r \in Reqs |-> <<>>]
    /\ log = <<>>
    /\ terminated = FALSE

InitMsg ==
    /\ hmMsgs = <<>>
    /\ hmCalls = <<>>
    /\ hmSent = <<>>

Free == <<"free", 0>>

InitPong ==
    /\ consecutive_pong_timeouts = 0
    /\ pong_mutex = Free
    /\ pongPc = [p \in Pongs |-> "pending"]
    /\ timeoutPc = [t \in Timeouts |-> "pending"]
    /\ incsSince = [p \in Pongs |-> 0]

Callbacks(c) ==
    [onOpen |-> c, onMessage |-> c, onPong |-> c, onPongTimeout |-> c]

NotReset == [msgs |-> 0, logins |-> 0, pongs |-> {}, timeouts |-> {}]

InitConn ==
    /\ carPc = "configure"
    /\ connection_ptr = FALSE
    /\ connState = "closed"
    /\ callbacks = Callbacks("unset")
    /\ hbPc = "not_started"
    /\ must_stop = FALSE
    /\ hbJoined = FALSE
    /\ opens = 0
    /\ pendingOpen = 0
    /\ logins = 0
    /\ pings = 0
    /\ drops = 0
    /\ fatal = ""
    /\ loginError = FALSE
    /\ lastOpen = "none"
    /\ shutdown = FALSE
    /\ atReset = NotReset

Init == InitProc /\ InitMsg /\ InitPong /\ InitConn

\* ------------------------------------------- RequestProcessor (request thread)

\* processBlockingRequest replying with an RPC error itself when the action
\* throws request_error, before the error propagates.
processBlockingRequest_RepliesError ==
    /\ ~terminated
    /\ reqPc = "idle"
    /\ nreq < MaxReq
    /\ LET r == nreq + 1 IN
       \E o \in Outcomes, ok \in BOOLEAN :
          /\ nreq' = r
          /\ kind' = [kind EXCEPT ![r] = "blocking"]
          /\ IF o = "request_error"
                THEN /\ result' = [result EXCEPT ![r] = "request_error"]
                     /\ log' = Append(log, Msg("rpc_error", r, TRUE, FALSE, ok))
                ELSE /\ result' = [result EXCEPT ![r] = "returned"]
                     /\ log' = Append(log,
                                 Msg("blocking_response", r, TRUE, TRUE, ok))
    /\ UNCHANGED notProc
    /\ UNCHANGED <<reqPc, cur, notify, job, errMsg, dirs, files, taskPc,
                   outcome, done, tracker, events, terminated>>

\* processBlockingRequest drawing a job id and creating its directory.
processBlockingRequest_PreparesJob ==
    /\ ~terminated
    /\ reqPc = "idle"
    /\ nreq < MaxReq
    /\ LET r == nreq + 1 IN
       \E o \in Outcomes, ok \in BOOLEAN, id \in JobIds :
          /\ nreq' = r
          /\ kind' = [kind EXCEPT ![r] = "blocking"]
          /\ job' = [job EXCEPT ![r] = id]
          /\ dirs' = dirs \cup {id}
          /\ IF o = "request_error"
                THEN /\ result' = [result EXCEPT ![r] = "request_error"]
                     /\ log' = log
                ELSE /\ result' = [result EXCEPT ![r] = "returned"]
                     /\ log' = Append(log,
                                 Msg("blocking_response", r, TRUE, TRUE, ok))
    /\ UNCHANGED notProc
    /\ UNCHANGED <<reqPc, cur, notify, errMsg, files, taskPc,
                   outcome, done, tracker, events, terminated>>

\* processBlockingRequest: the action runs inline; a request_error leaves the
\* function before anything is sent, a connection_error of send is caught.
processBlockingRequest ==
    /\ ~terminated
    /\ reqPc = "idle"
    /\ nreq < MaxReq
    /\ LET r == nreq + 1 IN
       \E o \in Outcomes, ok \in BOOLEAN :
          /\ nreq' = r
          /\ kind' = [kind EXCEPT ![r] = "blocking"]
          /\ IF o = "request_error"
                THEN /\ result' = [result EXCEPT ![r] = "request_error"]
                     /\ log' = log
                ELSE /\ result' = [result EXCEPT ![r] = "returned"]
                     /\ log' = Append(log,
                                 Msg("blocking_response", r, TRUE, TRUE, ok))
    /\ UNCHANGED notProc
    /\ UNCHANGED <<reqPc, cur, notify, job, errMsg, dirs, files, taskPc,
                   outcome, done, tracker, events, terminated>>

\* NB_PrepareJob going on to the spawn after a failed directory creation.
NB_PrepareJob_GoesOn ==
    /\ ~terminated
    /\ reqPc = "idle"
    /\ nreq < MaxReq
    /\ LET r == nreq + 1 IN
       \E id \in JobIds, n \in BOOLEAN, created \in BOOLEAN :
          /\ nreq' = r
          /\ kind' = [kind EXCEPT ![r] = "non_blocking"]
          /\ notify' = [notify EXCEPT ![r] = n]
          /\ job' = [job EXCEPT ![r] = id]
          /\ reqPc' = "nb_spawn"
          /\ cur' = r
          /\ IF id \in dirs \/ created
                THEN /\ dirs' = dirs \cup {id}
                     /\ result' = result
                ELSE /\ dirs' = dirs
                     /\ result' = [result EXCEPT
                                     ![r] = "request_processing_error"]
    /\ UNCHANGED notProc
    /\ UNCHANGED <<errMsg, files, taskPc, outcome, done, tracker, events,
                   log, terminated>>

\* processNonBlockingRequest, lines 206-222: draw the job id; create the
\* results directory unless it exists; a failed creation throws
\* request_processing_error out of the function.
NB_PrepareJob ==
    /\ ~terminated
    /\ reqPc = "idle"
    /\ nreq < MaxReq
    /\ LET r == nreq + 1 IN
       \E id \in JobIds, n \in BOOLEAN, created \in BOOLEAN :
          /\ nreq' = r
          /\ kind' = [kind EXCEPT ![r] = "non_blocking"]
          /\ notify' = [notify EXCEPT ![r] = n]
          /\ job' = [job EXCEPT ![r] = id]
          /\ IF id \in dirs
                THEN /\ dirs' = dirs
                     /\ reqPc' = "nb_spawn"
                     /\ cur' = r
                     /\ result' = result
                ELSE IF created
                THEN /\ dirs' = dirs \cup {id}
                     /\ reqPc' = "nb_spawn"
                     /\ cur' = r
                     /\ result' = result
                ELSE /\ dirs' = dirs
                     /\ reqPc' = "idle"
                     /\ cur' = 0
                     /\ result' = [result EXCEPT
                                     ![r] = "request_processing_error"]
    /\ UNCHANGED notProc
    /\ UNCHANGED <<errMsg, files, taskPc, outcome, done, tracker, events,
                   log, terminated>>

\* NB_SpawnTask registering the task although the spawn threw.
NB_SpawnTask_RegistersAnyway ==
    /\ ~terminated
    /\ reqPc = "nb_spawn"
    /\ \E spawned \in BOOLEAN :
          /\ tracker' = tracker \cup {cur}
          /\ done' = [done EXCEPT ![cur] = FALSE]
          /\ IF spawned
                THEN /\ taskPc' = [taskPc EXCEPT ![cur] = "init_stdout"]
                     /\ errMsg' = errMsg
                ELSE /\ errMsg' = [errMsg EXCEPT
                                     ![cur] = "failed to start action task"]
                     /\ taskPc' = taskPc
    /\ reqPc' = "nb_send"
    /\ UNCHANGED notProc
    /\ UNCHANGED <<cur, nreq, kind, notify, job, result, dirs, files,
                   outcome, events, log, terminated>>

\* processNonBlockingRequest, lines 228-248: create the done flag, start the
\* task thread and register it; a std::exception of the spawn sets err_msg.
NB_SpawnTask ==
    /\ ~terminated
    /\ reqPc = "nb_spawn"
    /\ \E spawned \in BOOLEAN :
          IF spawned
             THEN /\ taskPc' = [taskPc EXCEPT ![cur] = "init_stdout"]
                  /\ done' = [done EXCEPT ![cur] = FALSE]
                  /\ tracker' = tracker \cup {cur}
                  /\ errMsg' = errMsg
             ELSE /\ errMsg' = [errMsg EXCEPT
                                  ![cur] = "failed to start action task"]
                  /\ UNCHANGED <<taskPc, done, tracker>>
    /\ reqPc' = "nb_send"
    /\ UNCHANGED notProc
    /\ UNCHANGED <<cur, nreq, kind, notify, job, result, dirs, files,
                   outcome, events, log, terminated>>

\* processNonBlockingRequest, lines 250-272: send the provisional response,
\* with the debug chunks; a connection_error is caught.
NB_SendProvisional ==
    /\ ~terminated
    /\ reqPc = "nb_send"
    /\ \E ok \in BOOLEAN :
          log' = Append(log, Msg("provisional_response", cur,
                                 errMsg[cur] = "", TRUE, ok))
    /\ result' = [result EXCEPT ![cur] = "returned"]
    /\ reqPc' = "idle"
    /\ cur' = 0
    /\ UNCHANGED notProc
    /\ UNCHANGED <<nreq, kind, notify, job, errMsg, dirs, files, taskPc,
                   outcome, done, tracker, events, terminated>>

\* --------------------------------------------- nonBlockingActionTask (thread)

\* TaskNext with the flag raised before the results are stored on disk.
TaskNext_DoneBeforeStore(pc, o, n) ==
    CASE pc = "init_stdout" -> "init_stderr"
      [] pc = "init_stderr" -> "init_status"
      [] pc = "init_status" -> "execute"
      [] pc = "execute" ->
            IF o = "request_error" THEN "send_rpc_error"
            ELSE IF n THEN "send_response" ELSE "set_done"
      [] pc = "send_response" -> "set_done"
      [] pc = "send_rpc_error" -> "set_done"
      [] pc = "set_done" -> "final_status"
      [] pc = "final_status" ->
            IF o = "request_error" THEN "write_err_msg" ELSE "write_stdout"
      [] pc = "write_stdout" ->
            IF o = "external_stderr" THEN "write_stderr" ELSE "finished"
      [] pc = "write_stderr" -> "finished"
      [] pc = "write_err_msg" -> "finished"
      [] OTHER -> pc

\* TaskNext sending the non-blocking response whatever notify_outcome is.
TaskNext_IgnoresNotify(pc, o, n) ==
    CASE pc = "init_stdout" -> "init_stderr"
      [] pc = "init_stderr" -> "init_status"
      [] pc = "init_status" -> "execute"
      [] pc = "execute" ->
            IF o = "request_error" THEN "send_rpc_error" ELSE "send_response"
      [] pc = "send_response" -> "final_status"
      [] pc = "send_rpc_error" -> "final_status"
      [] pc = "final_status" ->
            IF o = "request_error" THEN "write_err_msg" ELSE "write_stdout"
      [] pc = "write_stdout" ->
            IF o = "external_stderr" THEN "write_stderr" ELSE "set_done"
      [] pc = "write_stderr" -> "set_done"
      [] pc = "write_err_msg" -> "set_done"
      [] pc = "set_done" -> "finished"
      [] OTHER -> pc

\* The control flow of the task body: the position that follows position pc,
\* given the outcome o of executeAction and the request's notify_outcome n.
TaskNext(pc, o, n) ==
    CASE pc = "init_stdout" -> "init_stderr"
      [] pc = "init_stderr" -> "init_status"
      [] pc = "init_status" -> "execute"
      [] pc = "execute" ->
            IF o = "request_error" THEN "send_rpc_error"
            ELSE IF n THEN "send_response" ELSE "final_status"
      [] pc = "send_response" -> "final_status"
      [] pc = "send_rpc_error" -> "final_status"
      [] pc = "final_status" ->
            IF o = "request_error" THEN "write_err_msg" ELSE "write_stdout"
      [] pc = "write_stdout" ->
            IF o = "external_stderr" THEN "write_stderr" ELSE "set_done"
      [] pc = "write_stderr" -> "set_done"
      [] pc = "write_err_msg" -> "set_done"
      [] pc = "set_done" -> "finished"
      [] OTHER -> pc

\* A step of task r that writes a spool file: writeToFile either replaces
\* the content or throws file_error, which nothing in the task catches, so
\* the thread function exits by an exception and std::terminate is called.
TaskWrite(r, name, content, ev) ==
    /\ \E wrote \in BOOLEAN :
          IF wrote
             THEN /\ files' = writeToFile(files, job[r], name, content)
                  /\ events' = [events EXCEPT ![r] = Append(@, ev)]
                  /\ taskPc' = [taskPc EXCEPT
                                  ![r] = TaskNext(@, outcome[r], notify[r])]
                  /\ terminated' = terminated
             ELSE /\ terminated' = TRUE
                  /\ UNCHANGED <<files, events, taskPc>>
    /\ UNCHANGED notProc
    /\ UNCHANGED <<reqPc, cur, nreq, kind, notify, job, errMsg, result, dirs,
                   outcome, done, tracker, log>>

\* lines 65-68: initialize the outcome files.
Task_InitStdout(r) ==
    /\ ~terminated
    /\ taskPc[r] = "init_stdout"
    /\ TaskWrite(r, "stdout", Empty, "init")

Task_InitStderr(r) ==
    /\ ~terminated
    /\ taskPc[r] = "init_stderr"
    /\ TaskWrite(r, "stderr", Empty, "init")

Task_InitStatus(r) ==
    /\ ~terminated
    /\ taskPc[r] = "init_status"
    /\ TaskWrite(r, "status", RunningStatus(r), "init")

\* line 76: executeAction returns an outcome or throws request_error.
Task_Execute(r) ==
    /\ ~terminated
    /\ taskPc[r] = "execute"
    /\ \E o \in Outcomes :
          /\ outcome' = [outcome EXCEPT ![r] = o]
          /\ taskPc' = [taskPc EXCEPT ![r] = TaskNext(@, o, notify[r])]
    /\ UNCHANGED notProc
    /\ UNCHANGED <<reqPc, cur, nreq, kind, notify, job, errMsg, result, dirs,
                   files, done, tracker, events, log, terminated>>

\* TaskSend attempting the send again after a connection_error.
TaskSend_Retries(r, type) ==
    /\ \E ok \in BOOLEAN :
          /\ log' = Append(log, Msg(type, r, TRUE, FALSE, ok))
          /\ taskPc' = [taskPc EXCEPT
                          ![r] = IF ok THEN TaskNext(@, outcome[r], notify[r])
                                 ELSE @]
    /\ events' = [events EXCEPT ![r] = Append(@, "reply")]
    /\ UNCHANGED notProc
    /\ UNCHANGED <<reqPc, cur, nreq, kind, notify, job, errMsg, result, dirs,
                   files, outcome, done, tracker, terminated>>

\* TaskSend attaching the request's debug chunks.
TaskSend_WithDebug(r, type) ==
    /\ \E ok \in BOOLEAN :
          log' = Append(log, Msg(type, r, TRUE, TRUE, ok))
    /\ events' = [events EXCEPT ![r] = Append(@, "reply")]
    /\ taskPc' = [taskPc EXCEPT ![r] = TaskNext(@, outcome[r], notify[r])]
    /\ UNCHANGED notProc
    /\ UNCHANGED <<reqPc, cur, nreq, kind, notify, job, errMsg, result, dirs,
                   files, outcome, done, tracker, terminated>>

\* A send of the task: attempted once, a connection_error is caught.
TaskSend(r, type) ==
    /\ \E ok \in BOOLEAN :
          log' = Append(log, Msg(type, r, TRUE, FALSE, ok))
    /\ events' = [events EXCEPT ![r] = Append(@, "reply")]
    /\ taskPc' = [taskPc EXCEPT ![r] = TaskNext(@, outcome[r], notify[r])]
    /\ UNCHANGED notProc
    /\ UNCHANGED <<reqPc, cur, nreq, kind, notify, job, errMsg, result, dirs,
                   files, outcome, done, tracker, terminated>>

\* lines 78-99: the non-blocking response, when notify_outcome is set.
Task_SendResponse(r) ==
    /\ ~terminated
    /\ taskPc[r] = "send_response"
    /\ TaskSend(r, "non_blocking_response")

\* lines 100-122: the RPC error, when executeAction threw request_error.
Task_SendRpcError(r) ==
    /\ ~terminated
    /\ taskPc[r] = "send_rpc_error"
    /\ TaskSend(r, "rpc_error")

\* lines 125-129: the final status, with the elapsed seconds.
Task_FinalStatus(r) ==
    /\ ~terminated
    /\ taskPc[r] = "final_status"
    /\ \E d \in 0..MaxDur :
          TaskWrite(r, "status", CompletedStatus(r, d), "final_status")

\* lines 131-142: stdout of a successful action.
Task_WriteStdout(r) ==
    /\ ~terminated
    /\ taskPc[r] = "write_stdout"
    /\ TaskWrite(r, "stdout",
                 [c |-> IF outcome[r] = "internal" THEN "results" ELSE "stdout",
                  r |-> r],
                 "stream")

\* lines 134-137: stderr of an external action, when it is not empty.
Task_WriteStderr(r) ==
    /\ ~terminated
    /\ taskPc[r] = "write_stderr"
    /\ TaskWrite(r, "stderr", [c |-> "stderr", r |-> r], "stream")

\* lines 143-147: the prefixed failure message.
Task_WriteErrMsg(r) ==
    /\ ~terminated
    /\ taskPc[r] = "write_err_msg"
    /\ TaskWrite(r, "stderr", [c |-> "failed_to_execute", r |-> r], "stream")

\* line 150: flag the end of processing.
Task_SetDone(r) ==
    /\ ~terminated
    /\ taskPc[r] = "set_done"
    /\ done' = [done EXCEPT ![r] = TRUE]
    /\ events' = [events EXCEPT ![r] = Append(@, "done")]
    /\ taskPc' = [taskPc EXCEPT ![r] = TaskNext(@, outcome[r], notify[r])]
    /\ UNCHANGED notProc
    /\ UNCHANGED <<reqPc, cur, nreq, kind, notify, job, errMsg, result, dirs,
                   files, outcome, tracker, log, terminated>>

TaskStep(r) ==
    \/ Task_InitStdout(r)
    \/ Task_InitStderr(r)
    \/ Task_InitStatus(r)
    \/ Task_Execute(r)
    \/ Task_SendResponse(r)
    \/ Task_SendRpcError(r)
    \/ Task_FinalStatus(r)
    \/ Task_WriteStdout(r)
    \/ Task_WriteStderr(r)
    \/ Task_WriteErrMsg(r)
    \/ Task_SetDone(r)

RequestStep ==
    \/ NB_SpawnTask
    \/ NB_SendProvisional

Next ==
    \/ processBlockingRequest
    \/ NB_PrepareJob
    \/ NB_SpawnTask
    \/ NB_SendProvisional
    \/ \E r \in Reqs : TaskStep(r)

\* Threads are scheduled by the operating system: a thread that can take a
\* step eventually takes one.  Nothing forces a new request to arrive.
Fairness ==
    /\ WF_vars(RequestStep)
    /\ \A r \in Reqs : WF_vars(TaskStep(r))

Spec == Init /\ [][Next]_vars /\ Fairness

\* ---------------------------------------------- AgentEndpoint::handle_message

\* An inbound text frame, by what the checks of handle_message find in it.
Messages ==
    [json : BOOLEAN,            \* reader.parse succeeds
     envelope_ok : BOOLEAN,     \* it validates against network_message
     data_schema : {"cncschema", "loginschema"},
     data_ok : BOOLEAN,         \* its data validates against cnc_data
     module_known : BOOLEAN]    \* data.module is a key of modules_

\* What validate_and_call_action does: it returns the output, throws
\* validation_error, or throws another exception.
CallResults == {"output", "validation_error", "exception"}

\* Accepts with the data validation left out.
Accepts_SkipsDataValidation(m) ==
    /\ m.json
    /\ m.envelope_ok
    /\ m.data_schema = "cncschema"

\* lines 261-288: the four checks a message passes before it is dispatched;
\* each failed check returns from handle_message.
Accepts(m) ==
    /\ m.json
    /\ m.envelope_ok
    /\ m.data_schema = "cncschema"
    /\ m.data_ok

\* lines 254-345, the whole handler for one message: the checks; then the
\* module's action is called when the module is known; the response carries
\* the output or the error; an exception other than validation_error skips
\* the send and is caught, as is the message_error of a failed send.
handle_message ==
    /\ Len(hmMsgs) < MaxMsg
    /\ \E m \in Messages :
          LET i == Len(hmMsgs) + 1 IN
          /\ hmMsgs' = Append(hmMsgs, m)
          /\ IF ~Accepts(m)
                THEN /\ hmCalls' = Append(hmCalls, "not_called")
                     /\ hmSent' = hmSent
                ELSE IF ~m.module_known
                THEN /\ hmCalls' = Append(hmCalls, "not_called")
                     /\ \E ok \in BOOLEAN :
                           hmSent' = Append(hmSent,
                                        [msg |-> i, response |-> "unknown_module",
                                         ok |-> ok])
                ELSE \E c \in CallResults :
                     /\ hmCalls' = Append(hmCalls, c)
                     /\ IF c = "exception"
                           THEN hmSent' = hmSent
                           ELSE \E ok \in BOOLEAN :
                                   hmSent' = Append(hmSent,
                                                [msg |-> i, response |-> c,
                                                 ok |-> ok])
    /\ UNCHANGED notMsg

NextMsg == handle_message

SpecMsg == Init /\ [][NextMsg]_vars

\* ------------------------------- the pong and pong-timeout callbacks (threads)

\* ShouldReset resetting only from the second consecutive timeout on.
ShouldReset_OffByOne(c) == c > 1

\* line 372: the pong callback resets the counter when it reads it positive.
ShouldReset(c) == c > 0

\* line 372: the callback reads the counter without holding the mutex; the
\* read sees the value before or after a concurrent increment, as the
\* increment's store falls after or before this step.
Pong_Check(p) ==
    /\ pongPc[p] = "pending"
    /\ pongPc' = [pongPc EXCEPT
                    ![p] = IF ShouldReset(consecutive_pong_timeouts)
                              THEN "lock" ELSE "returned"]
    /\ incsSince' = [incsSince EXCEPT ![p] = 0]
    /\ UNCHANGED <<consecutive_pong_timeouts, pong_mutex, timeoutPc>>
    /\ UNCHANGED notPong

\* line 373: lock_guard takes the mutex.
Pong_Lock(p) ==
    /\ pongPc[p] = "lock"
    /\ pong_mutex = Free
    /\ pong_mutex' = <<"pong", p>>
    /\ pongPc' = [pongPc EXCEPT ![p] = "reset"]
    /\ UNCHANGED <<consecutive_pong_timeouts, timeoutPc, incsSince>>
    /\ UNCHANGED notPong

\* line 374: the counter is set to 0.
Pong_Reset(p) ==
    /\ pongPc[p] = "reset"
    /\ consecutive_pong_timeouts' = 0
    /\ pongPc' = [pongPc EXCEPT ![p] = "unlock"]
    /\ UNCHANGED <<pong_mutex, timeoutPc, incsSince>>
    /\ UNCHANGED notPong

\* line 375: the lock_guard goes out of scope.
Pong_Unlock(p) ==
    /\ pongPc[p] = "unlock"
    /\ pong_mutex' = Free
    /\ pongPc' = [pongPc EXCEPT ![p] = "returned"]
    /\ UNCHANGED <<consecutive_pong_timeouts, timeoutPc, incsSince>>
    /\ UNCHANGED notPong

\* line 383: lock_guard takes the mutex.
Timeout_Lock(t) ==
    /\ timeoutPc[t] = "pending"
    /\ pong_mutex = Free
    /\ pong_mutex' = <<"timeout", t>>
    /\ timeoutPc' = [timeoutPc EXCEPT ![t] = "increment"]
    /\ UNCHANGED <<consecutive_pong_timeouts, pongPc, incsSince>>
    /\ UNCHANGED notPong

\* line 386: the counter is incremented.
Timeout_Increment(t) ==
    /\ timeoutPc[t] = "increment"
    /\ consecutive_pong_timeouts' = consecutive_pong_timeouts + 1
    /\ timeoutPc' = [timeoutPc EXCEPT ![t] = "unlock"]
    /\ incsSince' = [p \in Pongs |->
                       IF pongPc[p] = "pending" THEN 0 ELSE incsSince[p] + 1]
    /\ UNCHANGED <<pong_mutex, pongPc>>
    /\ UNCHANGED notPong

\* line 387: the lock_guard goes out of scope.
Timeout_Unlock(t) ==
    /\ timeoutPc[t] = "unlock"
    /\ pong_mutex' = Free
    /\ timeoutPc' = [timeoutPc EXCEPT ![t] = "returned"]
    /\ UNCHANGED <<consecutive_pong_timeouts, pongPc, incsSince>>
    /\ UNCHANGED notPong

NextPong ==
    \/ \E p \in Pongs : Pong_Check(p)
    \/ \E p \in Pongs : Pong_Lock(p)
    \/ \E p \in Pongs : Pong_Reset(p)
    \/ \E p \in Pongs : Pong_Unlock(p)
    \/ \E t \in Timeouts : Timeout_Lock(t)
    \/ \E t \in Timeouts : Timeout_Increment(t)
    \/ \E t \in Timeouts : Timeout_Unlock(t)

SpecPong == Init /\ [][NextPong]_vars

\* ------------------------------------------------- connection supervisor
\* agent_endpoint.cpp: connect_and_run, monitorConnectionState, the
\* HeartbeatTask, the callbacks of setConnectionCallbacks and ~AgentEndpoint.
\* The connection itself (Cthun::WebSocket) is the environment: an open
\* succeeds or raises connection_error, an open connection may drop, and the
\* connection calls the callbacks registered on it.

\* lines 169-180: configureSecureEndpoint; endpoint_error becomes a
\* fatal_error.  Then createConnection and setConnectionCallbacks.
CAR_Configure ==
    /\ carPc = "configure"
    /\ \E ok \in BOOLEAN :
          IF ok
             THEN /\ connection_ptr' = TRUE
                  /\ callbacks' = Callbacks("endpoint")
                  /\ carPc' = "connect"
                  /\ fatal' = fatal
             ELSE /\ fatal' = "failed to configure the WebSocket endpoint"
                  /\ carPc' = "fatal"
                  /\ UNCHANGED <<connection_ptr, callbacks>>
    /\ UNCHANGED <<connState, hbPc, must_stop, hbJoined, opens, pendingOpen,
                   logins, pings, drops, loginError, lastOpen, atReset>>
    /\ UNCHANGED shutdown
    /\ UNCHANGED notConn

\* lines 184-190: open and waitForOpen; connection_error becomes a
\* fatal_error.  No HeartbeatTask exists yet, so nothing is joined.
CAR_Connect ==
    /\ carPc = "connect"
    /\ \E ok \in BOOLEAN :
          IF ok
             THEN /\ lastOpen' = "open"
                  /\ connState' = "open"
                  /\ opens' = opens + 1
                  /\ pendingOpen' = pendingOpen + 1
                  /\ carPc' = "start_heartbeat"
                  /\ fatal' = fatal
             ELSE /\ fatal' = "failed to connect"
                  /\ carPc' = "fatal"
                  /\ lastOpen' = "connection_error"
                  /\ UNCHANGED <<connState, opens, pendingOpen>>
    /\ UNCHANGED <<connection_ptr, callbacks, hbPc, must_stop, hbJoined,
                   logins, pings, drops, loginError, atReset>>
    /\ UNCHANGED shutdown
    /\ UNCHANGED notConn

\* lines 194-195 and 35-48: the HeartbeatTask is constructed with
\* must_stop_ false and its thread is started.  When std::thread cannot
\* start the thread its std::system_error leaves connect_and_run, and the
\* HeartbeatTask is destructed with a thread that never ran.
CAR_StartHeartbeat ==
    /\ carPc = "start_heartbeat"
    /\ must_stop' = FALSE
    /\ \E started \in BOOLEAN :
          IF started
             THEN /\ hbPc' = "loop"
                  /\ carPc' = "monitor"
                  /\ fatal' = fatal
             ELSE /\ hbPc' = hbPc
                  /\ carPc' = "heartbeat_stop"
                  /\ fatal' = "std::system_error"
    /\ UNCHANGED <<connection_ptr, connState, callbacks, hbJoined, opens,
                   pendingOpen, logins, pings, drops, loginError, lastOpen,
                   atReset>>
    /\ UNCHANGED shutdown
    /\ UNCHANGED notConn

\* lines 396-398 and 411: one check of the monitor loop.  An open connection
\* is left alone and the loop sleeps 11 s before it checks again.
Mon_Check ==
    /\ carPc = "monitor"
    /\ carPc' = IF connState # "open" THEN "backoff" ELSE "monitor"
    /\ UNCHANGED <<connection_ptr, connState, callbacks, hbPc, must_stop,
                   hbJoined, opens, pendingOpen, logins, pings, drops, fatal,
                   loginError, lastOpen, atReset>>
    /\ UNCHANGED shutdown
    /\ UNCHANGED notConn

\* A monitor loop that swallows the connection_error and goes on checking.
Mon_Reopen_KeepsTrying ==
    /\ carPc = "backoff"
    /\ \E ok \in BOOLEAN :
          IF ok
             THEN /\ lastOpen' = "open"
                  /\ connState' = "open"
                  /\ opens' = opens + 1
                  /\ pendingOpen' = pendingOpen + 1
             ELSE /\ lastOpen' = "connection_error"
                  /\ UNCHANGED <<connState, opens, pendingOpen>>
    /\ carPc' = "monitor"
    /\ UNCHANGED <<connection_ptr, callbacks, hbPc, must_stop, hbJoined,
                   logins, pings, drops, fatal, loginError, atReset>>
    /\ UNCHANGED shutdown
    /\ UNCHANGED notConn

\* lines 399-408: after sleep(2), open and waitForOpen; connection_error
\* becomes the fatal_error "failed to reconnect", which leaves the loop and
\* connect_and_run: the local HeartbeatTask is destructed on the way out.
Mon_Reopen ==
    /\ carPc = "backoff"
    /\ \E ok \in BOOLEAN :
          IF ok
             THEN /\ lastOpen' = "open"
                  /\ connState' = "open"
                  /\ opens' = opens + 1
                  /\ pendingOpen' = pendingOpen + 1
                  /\ carPc' = "monitor"
                  /\ fatal' = fatal
             ELSE /\ fatal' = "failed to reconnect"
                  /\ carPc' = "heartbeat_stop"
                  /\ lastOpen' = "connection_error"
                  /\ UNCHANGED <<connState, opens, pendingOpen>>
    /\ UNCHANGED <<connection_ptr, callbacks, hbPc, must_stop, hbJoined,
                   logins, pings, drops, loginError, atReset>>
    /\ UNCHANGED shutdown
    /\ UNCHANGED notConn

\* lines 41-43 and 52: ~HeartbeatTask calls stop, which sets must_stop_.
HeartbeatTask_stop ==
    /\ carPc = "heartbeat_stop"
    /\ must_stop' = TRUE
    /\ carPc' = "heartbeat_join"
    /\ UNCHANGED <<connection_ptr, connState, callbacks, hbPc, hbJoined,
                   opens, pendingOpen, logins, pings, drops, fatal,
                   loginError, lastOpen, atReset>>
    /\ UNCHANGED shutdown
    /\ UNCHANGED notConn

\* std::thread::joinable: the thread was started and not joined yet.
joinable == hbPc # "not_started" /\ ~hbJoined

\* lines 53-55: stop joins the thread when it is joinable; join returns once
\* the thread has left heartbeatThread.  Then the exception reaches the
\* caller of connect_and_run.
HeartbeatTask_join ==
    /\ carPc = "heartbeat_join"
    /\ IF ~joinable
          THEN hbJoined' = hbJoined
          ELSE /\ hbPc = "exited"
               /\ hbJoined' = TRUE
    /\ carPc' = "fatal"
    /\ UNCHANGED <<connection_ptr, connState, callbacks, hbPc, must_stop,
                   opens, pendingOpen, logins, pings, drops, fatal,
                   loginError, lastOpen, atReset>>
    /\ UNCHANGED shutdown
    /\ UNCHANGED notConn

\* A heartbeat thread that never reads must_stop_.
HB_Loop_IgnoresStop ==
    /\ hbPc = "loop"
    /\ hbPc' = "check"
    /\ UNCHANGED <<carPc, connection_ptr, connState, callbacks, must_stop,
                   hbJoined, opens, pendingOpen, logins, pings, drops, fatal,
                   loginError, lastOpen, atReset>>
    /\ UNCHANGED shutdown
    /\ UNCHANGED notConn

\* line 59: the loop condition of heartbeatThread.
HB_Loop ==
    /\ hbPc = "loop"
    /\ hbPc' = IF must_stop THEN "exited" ELSE "check"
    /\ UNCHANGED <<carPc, connection_ptr, connState, callbacks, must_stop,
                   hbJoined, opens, pendingOpen, logins, pings, drops, fatal,
                   loginError, lastOpen, atReset>>
    /\ UNCHANGED shutdown
    /\ UNCHANGED notConn

\* A heartbeat that tears the connection down when pongs are missing.
HB_Check_TearsDown ==
    /\ hbPc = "check"
    /\ IF consecutive_pong_timeouts > 0
          THEN /\ connState' = "closed"
               /\ hbPc' = "loop"
          ELSE /\ connState' = connState
               /\ hbPc' = IF connState = "open" THEN "ping" ELSE "loop"
    /\ UNCHANGED <<carPc, connection_ptr, callbacks, must_stop, hbJoined,
                   opens, pendingOpen, logins, pings, drops, fatal,
                   loginError, lastOpen, atReset>>
    /\ UNCHANGED shutdown
    /\ UNCHANGED notConn

\* A heartbeat that pings whatever the state of the connection.
HB_Check_PingsAlways ==
    /\ hbPc = "check"
    /\ hbPc' = "ping"
    /\ UNCHANGED <<carPc, connection_ptr, connState, callbacks, must_stop,
                   hbJoined, opens, pendingOpen, logins, pings, drops, fatal,
                   loginError, lastOpen, atReset>>
    /\ UNCHANGED shutdown
    /\ UNCHANGED notConn

\* lines 61-67 and 71: getState; a connection that is not open is skipped
\* and the thread sleeps DEFAULT_HEARTBEAT_PERIOD.
HB_Check ==
    /\ hbPc = "check"
    /\ hbPc' = IF connState = "open" THEN "ping" ELSE "loop"
    /\ UNCHANGED <<carPc, connection_ptr, connState, callbacks, must_stop,
                   hbJoined, opens, pendingOpen, logins, pings, drops, fatal,
                   loginError, lastOpen, atReset>>
    /\ UNCHANGED shutdown
    /\ UNCHANGED notConn

\* lines 63-64, 68-71: the ping is sent (a message_error is caught and
\* logged), then the thread sleeps DEFAULT_HEARTBEAT_PERIOD.
HB_Ping ==
    /\ hbPc = "ping"
    /\ pings' = IF pings < MaxPing THEN pings + 1 ELSE pings
    /\ hbPc' = "loop"
    /\ UNCHANGED <<carPc, connection_ptr, connState, callbacks, must_stop,
                   hbJoined, opens, pendingOpen, logins, drops, fatal,
                   loginError, lastOpen, atReset>>
    /\ UNCHANGED shutdown
    /\ UNCHANGED notConn

\* The broker side drops the open connection.
Env_Drop ==
    /\ connState = "open"
    /\ drops < MaxDrop
    /\ connState' = "closed"
    /\ drops' = drops + 1
    /\ UNCHANGED <<carPc, connection_ptr, callbacks, hbPc, must_stop,
                   hbJoined, opens, pendingOpen, logins, pings, fatal,
                   loginError, lastOpen, atReset>>
    /\ UNCHANGED shutdown
    /\ UNCHANGED notConn

\* The agent is asked to shut down.  No statement of connect_and_run,
\* monitorConnectionState or heartbeatThread reads the request.
Env_Shutdown ==
    /\ ~shutdown
    /\ shutdown' = TRUE
    /\ UNCHANGED <<carPc, connection_ptr, connState, callbacks, hbPc,
                   must_stop, hbJoined, opens, pendingOpen, logins, pings,
                   drops, fatal, loginError, lastOpen, atReset>>
    /\ UNCHANGED notConn

\* An on-open callback that logs in on the first open only.
Cb_OnOpen_LoginOnce ==
    /\ pendingOpen > 0
    /\ pendingOpen' = pendingOpen - 1
    /\ IF callbacks.onOpen = "endpoint" /\ logins = 0
          THEN /\ logins' = logins + 1
               /\ \E ok \in BOOLEAN : loginError' = (loginError \/ ~ok)
          ELSE UNCHANGED <<logins, loginError>>
    /\ UNCHANGED <<carPc, connection_ptr, connState, callbacks, hbPc,
                   must_stop, hbJoined, opens, pings, drops, fatal, lastOpen,
                   atReset>>
    /\ UNCHANGED shutdown
    /\ UNCHANGED notConn

\* lines 348-353 and 216-252: the connection delivers an on-open event to
\* the registered callback.  The endpoint's callback calls send_login, which
\* sends the login message or throws fatal_error inside the callback; the
\* no-op callback of ~AgentEndpoint does nothing.
Cb_OnOpen ==
    /\ pendingOpen > 0
    /\ pendingOpen' = pendingOpen - 1
    /\ IF callbacks.onOpen = "endpoint"
          THEN /\ logins' = logins + 1
               /\ \E ok \in BOOLEAN : loginError' = (loginError \/ ~ok)
          ELSE UNCHANGED <<logins, loginError>>
    /\ UNCHANGED <<carPc, connection_ptr, connState, callbacks, hbPc,
                   must_stop, hbJoined, opens, pings, drops, fatal, lastOpen,
                   atReset>>
    /\ UNCHANGED shutdown
    /\ UNCHANGED notConn

\* lines 355-361: an inbound message on the open connection is handed to
\* handle_message by the endpoint's on-message callback.
Cb_OnMessage ==
    /\ connState = "open"
    /\ callbacks.onMessage = "endpoint"
    /\ Len(hmMsgs) < MaxConnMsg
    /\ handle_message

\* lines 366-376: a pong for a ping sent earlier reaches the endpoint's
\* on-pong callback.
Cb_OnPong ==
    /\ pings > 0
    /\ callbacks.onPong = "endpoint"
    /\ \E p \in Pongs : p <= MaxConnPong /\ Pong_Check(p)

\* lines 378-387: a ping sent earlier times out and the endpoint's
\* pong-timeout callback is called.
Cb_OnPongTimeout ==
    /\ pings > 0
    /\ callbacks.onPongTimeout = "endpoint"
    /\ \E t \in Timeouts : t <= MaxConnTimeout /\ Timeout_Lock(t)

\* A callback that has begun runs to its end.
Cb_PongStep ==
    \/ \E p \in Pongs : Pong_Lock(p) \/ Pong_Reset(p) \/ Pong_Unlock(p)
    \/ \E t \in Timeouts : Timeout_Increment(t) \/ Timeout_Unlock(t)

\* What the endpoint's callbacks have done so far.
CallbackWork ==
    [msgs |-> Len(hmMsgs), logins |-> logins,
     pongs |-> {p \in Pongs : pongPc[p] # "pending"},
     timeouts |-> {t \in Timeouts : timeoutPc[t] # "pending"}]

\* A destructor that leaves the pong-timeout callback in place.
AgentEndpoint_Destroy_KeepsTimeout ==
    /\ carPc = "fatal"
    /\ IF connection_ptr
          THEN callbacks' = [Callbacks("noop") EXCEPT
                               !.onPongTimeout = callbacks.onPongTimeout]
          ELSE callbacks' = callbacks
    /\ atReset' = CallbackWork
    /\ carPc' = "destroyed"
    /\ UNCHANGED <<connection_ptr, connState, hbPc, must_stop, hbJoined,
                   opens, pendingOpen, logins, pings, drops, fatal,
                   loginError, lastOpen>>
    /\ UNCHANGED shutdown
    /\ UNCHANGED notConn

\* lines 106-134: ~AgentEndpoint, run by the caller once connect_and_run has
\* thrown: when there is a connection the four callbacks are replaced by
\* no-ops.
AgentEndpoint_Destroy ==
    /\ carPc = "fatal"
    /\ IF connection_ptr
          THEN callbacks' = Callbacks("noop")
          ELSE callbacks' = callbacks
    /\ atReset' = CallbackWork
    /\ carPc' = "destroyed"
    /\ UNCHANGED <<connection_ptr, connState, hbPc, must_stop, hbJoined,
                   opens, pendingOpen, logins, pings, drops, fatal,
                   loginError, lastOpen>>
    /\ UNCHANGED shutdown
    /\ UNCHANGED notConn

\* The endpoint's reference to the connection is released after the body of
\* the destructor and the channel is closed.
Connection_Close ==
    /\ carPc = "destroyed"
    /\ connState' = "closed"
    /\ carPc' = "closed"
    /\ UNCHANGED <<connection_ptr, callbacks, hbPc, must_stop, hbJoined,
                   opens, pendingOpen, logins, pings, drops, fatal,
                   loginError, lastOpen, atReset>>
    /\ UNCHANGED shutdown
    /\ UNCHANGED notConn

MainStep ==
    \/ CAR_Configure
    \/ CAR_Connect
    \/ CAR_StartHeartbeat
    \/ Mon_Check
    \/ Mon_Reopen
    \/ HeartbeatTask_stop
    \/ HeartbeatTask_join
    \/ AgentEndpoint_Destroy
    \/ Connection_Close

HeartbeatStep == HB_Loop \/ HB_Check \/ HB_Ping

CallbackStep ==
    \/ Cb_OnOpen
    \/ Cb_OnMessage
    \/ Cb_OnPong
    \/ Cb_OnPongTimeout
    \/ Cb_PongStep

NextConn ==
    MainStep \/ HeartbeatStep \/ CallbackStep \/ Env_Drop \/ Env_Shutdown

\* The threads are scheduled fairly.
FairnessConn ==
    /\ WF_vars(MainStep)
    /\ WF_vars(HeartbeatStep)
    /\ WF_vars(CallbackStep)

SpecConn == Init /\ [][NextConn]_vars /\ FairnessConn

\* ------------------------------------------------------------------ claims

ProvisionalOf(r) ==
    {i \in DOMAIN log : log[i].req = r /\ log[i].type = "provisional_response"}

FinalOf(r) ==
    {i \in DOMAIN log : /\ log[i].req = r
                        /\ log[i].type \in {"non_blocking_response", "rpc_error"}}

SendsOf(r) == {i \in DOMAIN log : log[i].req = r}

\* A non-blocking request whose spool directory was available.
NonBlocking(r) ==
    kind[r] = "non_blocking" /\ result[r] # "request_processing_error"

\* C1: for every non-blocking request whose spool directory is available,
\* exactly one provisional_response is attempted (one once the processor has
\* returned, never more), at most one final reply is attempted, and no final
\* reply is attempted before the provisional one.
C1_ProvisionalBeforeFinal ==
    \A r \in Reqs :
       NonBlocking(r) =>
          /\ Cardinality(ProvisionalOf(r)) <= 1
          /\ result[r] = "returned" => Cardinality(ProvisionalOf(r)) = 1
          /\ Cardinality(FinalOf(r)) <= 1
          /\ \A i \in FinalOf(r) : \E j \in ProvisionalOf(r) : j < i

\* C2: when the request thread is about to attempt the provisional reply,
\* the job's directory exists and holds stdout, stderr and a status file
\* with the initial 'running' record.
C2_SpoolReadyAtProvisional ==
    reqPc = "nb_send" =>
       /\ job[cur] \in dirs
       /\ files[job[cur]].status.status = "running"
       /\ files[job[cur]].stdout # Absent
       /\ files[job[cur]].stderr # Absent

\* C3: a job whose done flag is true has a status file that holds
\* status=completed and a duration that is not negative.
C3_DoneImpliesCompleted ==
    \A r \in Reqs :
       done[r] =>
          /\ files[job[r]].status.status = "completed"
          /\ files[job[r]].status.duration >= 0

Rank(e) ==
    CASE e = "init" -> 0
      [] e = "reply" -> 1
      [] e = "final_status" -> 2
      [] e = "stream" -> 3
      [] e = "done" -> 4

\* C4: in one task the events come in the order completion reply, final
\* status write, stream writes, done=true; nothing follows done=true, and
\* the flag is true only after the final status and a stream were written.
C4_TaskOrder ==
    \A r \in Reqs :
       LET ev == events[r] IN
       /\ \A i, k \in DOMAIN ev :
             i < k => /\ Rank(ev[i]) <= Rank(ev[k])
                      /\ ev[i] # "done"
       /\ Cardinality({i \in DOMAIN ev : ev[i] = "reply"}) <= 1
       /\ done[r] =>
             /\ ev # <<>>
             /\ ev[Len(ev)] = "done"
             /\ \E i \in DOMAIN ev : ev[i] = "final_status"
             /\ \E i \in DOMAIN ev : ev[i] = "stream"
             /\ ~ENABLED TaskStep(r)

\* A task that sent its completion reply has stored its results and raised
\* the flag.
C4_Witness ==
    \E r \in Reqs : done[r] /\ \E i \in DOMAIN events[r] : events[r][i] = "reply"

\* C5: for every task registered with the tracker the done flag eventually
\* becomes true, whatever happens in the task, and never returns to false.
C5_DoneExactlyOnce ==
    /\ \A r \in Reqs : [](r \in tracker => <>done[r])
    /\ [][\A r \in Reqs : done[r] => done'[r]]_vars

\* C6: no two jobs share a job id (and so a spool directory).
C6_JobIdsDistinct ==
    \A r1, r2 \in Reqs :
       (r1 # r2 /\ NonBlocking(r1) /\ NonBlocking(r2)) => job[r1] # job[r2]

\* C7: a blocking request gets at most one reply attempt from the processor:
\* one blocking_response when the action succeeded, and none when the action
\* raised request_error, which propagates to the caller.
C7_BlockingOneReply ==
    \A r \in Reqs :
       kind[r] = "blocking" =>
          /\ result[r] \in {"returned", "request_error"}
          /\ \A i \in SendsOf(r) : log[i].type = "blocking_response"
          /\ result[r] = "returned" => Cardinality(SendsOf(r)) = 1
          /\ result[r] = "request_error" => SendsOf(r) = {}

\* A blocking request failed with request_error while another was answered.
C7_Witness ==
    \E r1, r2 \in Reqs :
       /\ kind[r1] = "blocking" /\ result[r1] = "request_error"
       /\ kind[r2] = "blocking" /\ result[r2] = "returned"

\* C10 as stated: a failed creation of the job's directory is answered by a
\* provisional reply with success=false, and no task is spawned.
C10_FailureAsProvisional ==
    \A r \in Reqs :
       result[r] = "request_processing_error" =>
          /\ \E i \in ProvisionalOf(r) : ~log[i].success
          /\ taskPc[r] = "none"

\* C10, amended: a failed creation of the job's directory leaves
\* processNonBlockingRequest by request_processing_error: the processor
\* attempts no reply for the request, spawns and registers no task, and
\* writes nothing for it.
C10_FailureThrows ==
    \A r \in Reqs :
       result[r] = "request_processing_error" =>
          /\ SendsOf(r) = {}
          /\ taskPc[r] = "none"
          /\ r \notin tracker
          /\ events[r] = <<>>

\* The creation of a job's directory failed while another job is running.
C10_Witness ==
    \E r1, r2 \in Reqs :
       /\ result[r1] = "request_processing_error"
       /\ taskPc[r2] \notin {"none", "finished"}

\* C8: handle_message calls a module action only for a message that parsed
\* as JSON, validated against the envelope schema, carries the cnc
\* data_schema and validated against the data schema; a message that fails
\* one of the checks gets no action call and no response.
C8_OnlyValidDispatched ==
    \A i \in DOMAIN hmMsgs :
       LET m == hmMsgs[i]
           valid == /\ m.json
                    /\ m.envelope_ok
                    /\ m.data_schema = "cncschema"
                    /\ m.data_ok
       IN /\ hmCalls[i] # "not_called" => valid
          /\ ~valid => /\ hmCalls[i] = "not_called"
                       /\ \A k \in DOMAIN hmSent : hmSent[k].msg # i

\* A message that failed only the data validation was dropped and a valid
\* one was dispatched.
C8_Witness ==
    \E i, k \in DOMAIN hmMsgs :
       /\ hmMsgs[i].json /\ hmMsgs[i].envelope_ok
       /\ hmMsgs[i].data_schema = "cncschema" /\ ~hmMsgs[i].data_ok
       /\ hmCalls[k] = "output"

\* C9: a pong callback that has returned has reset the counter at some
\* instant of its execution: the counter is at most the number of timeouts
\* that incremented it since the callback started (so 0 when none did); and
\* the counter is written only by the holder of pong_mutex.
C9_PongResets ==
    /\ \A p \in Pongs :
          /\ pongPc[p] = "returned" =>
                consecutive_pong_timeouts <= incsSince[p]
          /\ pongPc[p] \in {"reset", "unlock"} <=> pong_mutex = <<"pong", p>>
    /\ \A t \in Timeouts :
          timeoutPc[t] \in {"increment", "unlock"} <=>
             pong_mutex = <<"timeout", t>>
    /\ consecutive_pong_timeouts >= 0

\* A pong callback returned after it reset a counter that timeouts had
\* raised, one of them while the callback was waiting for the mutex.
C9_Witness ==
    \E p \in Pongs :
       /\ pongPc[p] = "returned"
       /\ incsSince[p] > 0
       /\ consecutive_pong_timeouts = 0
       /\ \A t \in Timeouts : timeoutPc[t] = "returned"

\* The positions of a task after its send.
AfterSend ==
    {"final_status", "write_stdout", "write_stderr", "write_err_msg",
     "set_done", "finished"}

\* C11: a failed send is not retried and does not escape: no reply of a
\* request is attempted twice; the processor call has returned normally after
\* a failed blocking_response or provisional_response; after a failed
\* non_blocking_response or rpc_error the task goes on to store the results,
\* and when it has finished it has written the final status and set done.
C11_FailedSendSwallowed ==
    \A r \in Reqs :
       /\ \A i, k \in SendsOf(r) : log[i].type = log[k].type => i = k
       /\ \A i \in SendsOf(r) :
             (~log[i].ok /\ log[i].type \in {"blocking_response",
                                            "provisional_response"})
                => result[r] = "returned"
       /\ \A i \in FinalOf(r) :
             ~log[i].ok =>
                /\ taskPc[r] \in AfterSend
                /\ taskPc[r] = "finished" =>
                      /\ done[r]
                      /\ \E k \in DOMAIN events[r] :
                            events[r][k] = "final_status"

\* A job whose provisional reply and whose completion reply both failed to
\* be sent is done.
C11_Witness ==
    \E r \in Reqs :
       /\ done[r]
       /\ \E i \in ProvisionalOf(r) : ~log[i].ok
       /\ \E i \in FinalOf(r) : ~log[i].ok

\* C15: after a failed spawn no task is registered or runs for the request,
\* the provisional reply (one, once the processor has returned) carries
\* success=false and a non-empty error, no final reply is attempted, and the
\* directory created before the spawn is still there.
C15_SpawnFailure ==
    \A r \in Reqs :
       errMsg[r] # "" =>
          /\ r \notin tracker
          /\ taskPc[r] = "none"
          /\ Cardinality(ProvisionalOf(r)) <= 1
          /\ result[r] = "returned" => Cardinality(ProvisionalOf(r)) = 1
          /\ \A i \in ProvisionalOf(r) : ~log[i].success /\ log[i].error # ""
          /\ FinalOf(r) = {}
          /\ SendsOf(r) = ProvisionalOf(r)
          /\ job[r] \in dirs

\* The spawn of a job failed, its provisional reply was attempted, and its
\* directory holds no file.
C15_Witness ==
    \E r \in Reqs :
       /\ errMsg[r] # ""
       /\ result[r] = "returned"
       /\ files[job[r]] = NoFiles

\* C17: the debug chunks are attached to the provisional reply and to the
\* blocking reply, and to no non_blocking_response and no rpc_error.
C17_DebugOnlyOnFirstReply ==
    \A i \in DOMAIN log :
       log[i].debug <=>
          log[i].type \in {"provisional_response", "blocking_response"}

\* A job's provisional reply went out with the debug chunks and its
\* completion reply without them.
C17_Witness ==
    \E r \in Reqs :
       /\ \E i \in ProvisionalOf(r) : log[i].debug
       /\ \E i \in FinalOf(r) : ~log[i].debug

\* C18: the step that processes a blocking request changes neither the
\* spool nor the tracker, and draws no job id and starts no task.
C18_BlockingFrame ==
    [][(nreq' = nreq + 1 /\ kind'[nreq'] = "blocking") =>
          UNCHANGED <<dirs, files, tracker, job, taskPc, done>>]_vars

\* A blocking request was processed while a job's directory existed.
C18_Witness ==
    \E r \in Reqs : kind[r] = "blocking" /\ job[r] = 0 /\ dirs # {}

\* C19: once a task is past its send, a non_blocking_response was attempted
\* for it iff the action succeeded and notify_outcome is true, and an
\* rpc_error iff the action threw request_error; before that, and for a
\* successful action without notify_outcome, nothing but the provisional
\* reply was attempted for the job.
C19_CompletionReply ==
    \A r \in Reqs :
       LET sent(t) == \E i \in SendsOf(r) : log[i].type = t IN
       kind[r] = "non_blocking" =>
          /\ taskPc[r] \in AfterSend =>
                /\ sent("non_blocking_response") <=>
                      (outcome[r] # "request_error" /\ notify[r])
                /\ sent("rpc_error") <=> outcome[r] = "request_error"
                /\ (outcome[r] # "request_error" /\ ~notify[r]) =>
                      SendsOf(r) = ProvisionalOf(r)
          /\ taskPc[r] \notin AfterSend => FinalOf(r) = {}

\* With notify_outcome false, one job succeeded silently and another sent
\* its rpc_error.
C19_Witness ==
    \E r1, r2 \in Reqs :
       /\ ~notify[r1] /\ done[r1] /\ outcome[r1] # "request_error"
       /\ ~notify[r2] /\ done[r2] /\ outcome[r2] = "request_error"
       /\ FinalOf(r2) # {}

\* C20: when a job's task has finished, its status file reads 'completed'
\* and its stream files hold, by outcome: the results in stdout and an empty
\* stderr (Internal); the plugin's stdout in stdout and the plugin's stderr,
\* if not empty, in stderr (External); the prefixed failure message in
\* stderr and an empty stdout (request_error).
C20_StreamsByOutcome ==
    \A r \in Reqs :
       taskPc[r] = "finished" =>
          LET f == files[job[r]] IN
          /\ f.status.status = "completed"
          /\ outcome[r] = "internal" =>
                f.stdout = [c |-> "results", r |-> r] /\ f.stderr = Empty
          /\ outcome[r] = "external" =>
                f.stdout = [c |-> "stdout", r |-> r] /\ f.stderr = Empty
          /\ outcome[r] = "external_stderr" =>
                /\ f.stdout = [c |-> "stdout", r |-> r]
                /\ f.stderr = [c |-> "stderr", r |-> r]
          /\ outcome[r] = "request_error" =>
                /\ f.stdout = Empty
                /\ f.stderr = [c |-> "failed_to_execute", r |-> r]

\* C12: whenever the monitor loop has observed the connection not open, the
\* connection is not open and the re-open is the loop's next step; every
\* successful open, the first one and each re-open, brings one call of the
\* on-open callback and with it one login; and on an open connection an
\* inbound message is handed to handle_message.
C12_ReopenAndLogin ==
    /\ carPc = "backoff" => connState # "open" /\ ENABLED Mon_Reopen
    /\ callbacks.onOpen = "endpoint" => opens = logins + pendingOpen
    /\ (connState = "open" /\ callbacks.onMessage = "endpoint"
          /\ Len(hmMsgs) < MaxConnMsg) => ENABLED Cb_OnMessage

\* The connection dropped and was re-opened, the login was sent again and an
\* inbound message is about to be dispatched.
C12_Witness ==
    /\ drops = 1
    /\ opens = 2
    /\ logins = 2
    /\ connState = "open"
    /\ ENABLED Cb_OnMessage

Terminal == {"heartbeat_stop", "heartbeat_join", "fatal", "destroyed", "closed"}

ReopenFailed == opens > 0 /\ lastOpen = "connection_error"

\* C13: once a re-open in the monitor loop has raised connection_error the
\* monitor loop is left for good, no further open is attempted, the
\* connection stays as it is, and the fatal_error "failed to reconnect"
\* reaches the caller of connect_and_run.
C13_ReconnectFailureIsFatal ==
    /\ [](ReopenFailed =>
             carPc \in Terminal /\ fatal = "failed to reconnect")
    /\ [][ReopenFailed => UNCHANGED <<opens, lastOpen, connState>>]_vars
    /\ (ReopenFailed ~> carPc \in {"fatal", "destroyed", "closed"})

\* The fatal_error of a failed re-open has reached the caller.
C13_Witness ==
    /\ ReopenFailed
    /\ carPc = "fatal"
    /\ fatal = "failed to reconnect"
    /\ hbJoined

\* C14: a step of the heartbeat thread or of a pong or pong-timeout callback
\* leaves the connection state alone and opens nothing, whatever the value
\* of consecutive_pong_timeouts; a pong-timeout raises the counter by one.
C14_HeartbeatLeavesConnection ==
    /\ [][(hbPc # "not_started" /\ hbPc' # hbPc) \/ pongPc' # pongPc
             \/ timeoutPc' # timeoutPc
             => UNCHANGED <<connState, opens, carPc, callbacks>>]_vars
    /\ [][\A t \in Timeouts :
             timeoutPc[t] = "increment" /\ timeoutPc'[t] = "unlock"
                => consecutive_pong_timeouts'
                      = consecutive_pong_timeouts + 1]_vars

\* One pong was dropped: the counter is 1, the heartbeat goes on and the
\* connection is still open.
C14_Witness ==
    /\ consecutive_pong_timeouts = 1
    /\ \E t \in Timeouts : timeoutPc[t] = "returned"
    /\ hbPc = "check"
    /\ connState = "open"
    /\ drops = 0

C21_SpoolOwnedByTask ==
    [][/\ dirs \subseteq dirs'
       /\ \A j \in JobIds :
             /\ files[j].status # NoStatus => files'[j].status # NoStatus
             /\ files[j].stdout # Absent => files'[j].stdout # Absent
             /\ files[j].stderr # Absent => files'[j].stderr # Absent
       /\ \A r \in Reqs :
             (kind[r] = "non_blocking" /\ files'[job[r]] # files[job[r]])
                => taskPc'[r] # taskPc[r]]_vars

\* C22: once shutdown was asked for while the monitor loop runs, the loop
\* eventually ends and connect_and_run is left.
C22_LoopExitsOnShutdown ==
    [](shutdown /\ carPc \in {"monitor", "backoff"}
          => <>(carPc \notin {"monitor", "backoff"}))

\* C23: every message that passed the four checks gets exactly one response
\* attempt; for a module that is not registered no action is called and the
\* response is the "Unknown module" error; for params the module rejects
\* with validation_error the response carries that error.
C23_OneResponsePerValidMessage ==
    \A i \in DOMAIN hmMsgs :
       LET m == hmMsgs[i]
           sent == {k \in DOMAIN hmSent : hmSent[k].msg = i}
       IN Accepts(m) =>
             /\ Cardinality(sent) = 1
             /\ ~m.module_known =>
                   /\ hmCalls[i] = "not_called"
                   /\ \A k \in sent : hmSent[k].response = "unknown_module"
             /\ hmCalls[i] = "validation_error" =>
                   \A k \in sent : hmSent[k].response = "validation_error"

\* C24: once must_stop_ is set the heartbeat thread begins no new iteration;
\* stop, called by ~HeartbeatTask, returns, whether the thread was started
\* (it is then joined) or never started; and once the thread is joined it
\* has left heartbeatThread, sends no ping and is not joinable again.
C24_StopTerminates ==
    /\ [][must_stop => ~(hbPc = "loop" /\ hbPc' = "check")]_vars
    /\ [][hbJoined => hbPc' = "exited" /\ pings' = pings /\ hbJoined']_vars
    /\ [](hbJoined => hbPc = "exited" /\ must_stop /\ ~joinable)
    /\ [](carPc = "fatal" /\ must_stop => hbJoined \/ hbPc = "not_started")
    /\ (carPc = "heartbeat_stop" ~> carPc = "fatal")

\* stop has returned after joining a heartbeat thread that had pinged.
C24_Witness ==
    /\ carPc = "fatal"
    /\ must_stop
    /\ hbJoined
    /\ pings = MaxPing

\* C25: the heartbeat thread runs only after the initial open succeeded; a
\* failed configuration or a failed initial connect leaves connect_and_run
\* with a fatal_error, no heartbeat and no monitor loop; and in an iteration
\* the heartbeat goes on to ping exactly when it saw the connection open:
\* otherwise it skips the ping and starts the next iteration.
C25_HeartbeatAfterOpen ==
    /\ [](hbPc # "not_started" => opens > 0)
    /\ [](fatal \in {"failed to configure the WebSocket endpoint",
                     "failed to connect"}
             => /\ hbPc = "not_started"
                /\ opens = 0
                /\ carPc \in {"fatal", "destroyed", "closed"})
    /\ [][hbPc = "check" /\ hbPc' # hbPc
             => IF connState = "open" THEN hbPc' = "ping"
                                      ELSE hbPc' = "loop"]_vars
    /\ [][hbPc' = "ping" => hbPc \in {"check", "ping"}]_vars
    /\ [][pings' # pings => hbPc = "ping"]_vars

\* A heartbeat that has pinged is in an iteration during a disconnect.
C25_Witness ==
    /\ hbPc = "check"
    /\ connState # "open"
    /\ pings > 0
    /\ ~must_stop

====
